---- MODULE Spec2Model ----
(***************************************************************************)
(* Tic-Tac-Toe with time travel (src/src/App.js): the Game component's     *)
(* state (history, currentMove), the Board's click handler, the move list  *)
(* and the pure function calculateWinner.                                  *)
(*                                                                         *)
(* JavaScript arrays are 0-based, TLA+ sequences 1-based: the snapshot the *)
(* source calls history[k] is the element k+1 of the sequence `history`    *)
(* (see HistoryAt).  A board is a function from the cell indices 0..8.     *)
(***************************************************************************)
EXTENDS Integers, Sequences, FiniteSets, TLC

\* The games explored are those the user plays on the squares 0..MaxCell.
MaxCell == 5

\* The value of an empty square (JavaScript null) and the two marks.
Null == "null"
Marks == {"X", "O"}
CellValues == Marks \cup {Null}

\* The nine squares the Board renders, and the array Array(9).fill(null).
Cells == 0..8
EmptyBoard == [i \in Cells |-> Null]
Boards == [Cells -> CellValues]

\* JavaScript truthiness of a square's value: null is falsy, "X"/"O" truthy.
Truthy(v) == v # Null

VARIABLES
  history,      \* Game: const [history, setHistory]
  currentMove,  \* Game: const [currentMove, setCurrentMove]
  last,         \* the last user event delivered to a handler, and its effect
  squaresArg,   \* argument of a direct call of calculateWinner
  winnerRet     \* what that call returned ("pending" before the call)

vars == <<history, currentMove, last, squaresArg, winnerRet>>

-----------------------------------------------------------------------------
(* calculateWinner *)

\* The table scanned from the diagonals back to the top row.
lines_reversed == << <<2, 4, 6>>, <<0, 4, 8>>,
                     <<2, 5, 8>>, <<1, 4, 7>>, <<0, 3, 6>>,
                     <<6, 7, 8>>, <<3, 4, 5>>, <<0, 1, 2>> >>

\* The table of winning lines, in the order of the source.
lines == << <<0, 1, 2>>, <<3, 4, 5>>, <<6, 7, 8>>,
            <<0, 3, 6>>, <<1, 4, 7>>, <<2, 5, 8>>,
            <<0, 4, 8>>, <<2, 4, 6>> >>

\* The test of one line with the comparison against squares[c] forgotten.
LineMatches_twoCells(squares, line) ==
  LET a == line[1]
      b == line[2]
  IN  Truthy(squares[a]) /\ squares[a] = squares[b]

\* The test of one line: squares[a] && squares[a] === squares[b] && squares[a] === squares[c]
LineMatches(squares, line) ==
  LET a == line[1]
      b == line[2]
      c == line[3]
  IN  Truthy(squares[a]) /\ squares[a] = squares[b] /\ squares[a] = squares[c]

\* The for loop, from the line at (1-based) position n on: the first line
\* that matches returns squares[a]; falling off the table returns null.
RECURSIVE ScanLines(_, _)
ScanLines(squares, n) ==
  IF n > Len(lines) THEN Null
  ELSE IF LineMatches(squares, lines[n]) THEN squares[lines[n][1]]
       ELSE ScanLines(squares, n + 1)

calculateWinner(squares) == ScanLines(squares, 1)

-----------------------------------------------------------------------------
(* Game: derived values of one render *)

\* history[k] of the source (0-based).
HistoryAt(k) == history[k + 1]

\* array.slice(0, end) for 0 <= end: the first min(end, length) elements.
Slice(arr, end) == SubSeq(arr, 1, IF end < Len(arr) THEN end ELSE Len(arr))

\* The turn derived from the number of recorded snapshots, not the cursor.
xIsNext_fromLength == Len(history) % 2 = 1

xIsNext == currentMove % 2 = 0

currentSquares == HistoryAt(currentMove)

\* A move list with one button more than there are snapshots.
moves_oneTooMany == 0 .. Len(history)

\* The move list: one "Go to ..." button per index of history.
moves == 0 .. (Len(history) - 1)

\* A status line that announces a draw on a full board without a line.
status_withDraw ==
  LET winner == calculateWinner(currentSquares)
  IN  IF Truthy(winner)
      THEN "Winner: " \o winner
      ELSE IF \A c \in Cells : Truthy(currentSquares[c])
           THEN "Draw"
           ELSE "Next player: " \o (IF xIsNext THEN "X" ELSE "O")

\* Board: the status line of one render.
status ==
  LET winner == calculateWinner(currentSquares)
  IN  IF Truthy(winner)
      THEN "Winner: " \o winner
      ELSE "Next player: " \o (IF xIsNext THEN "X" ELSE "O")

-----------------------------------------------------------------------------
(* Handlers *)

\* The history holds, after the cursor, a last snapshot with a completed line.
WinAhead ==
  /\ currentMove + 1 < Len(history)
  /\ Truthy(calculateWinner(history[Len(history)]))

NoEvent == [op |-> "init", arg |-> 0, accepted |-> FALSE, dropped |-> 0, droppedWin |-> FALSE]

\* handlePlay appending to the whole history (no slice).
handlePlay_append(nextSquares) ==
  LET nextHistory == history \o <<nextSquares>>
  IN  /\ history' = nextHistory
      /\ currentMove' = Len(nextHistory) - 1

\* handlePlay slicing one short: history.slice(0, currentMove).
handlePlay_sliceShort(nextSquares) ==
  LET nextHistory == Slice(history, currentMove) \o <<nextSquares>>
  IN  /\ history' = nextHistory
      /\ currentMove' = Len(nextHistory) - 1

\* Game.handlePlay: keep history[0..currentMove], append the new board and
\* move the cursor to the new last index.
handlePlay(nextSquares) ==
  LET nextHistory == Slice(history, currentMove + 1) \o <<nextSquares>>
  IN  /\ history' = nextHistory
      /\ currentMove' = Len(nextHistory) - 1

\* handleClick whose early return tests only calculateWinner(squares).
handleClick_noOccupiedCheck(i) ==
  LET squares == currentSquares
  IN  IF Truthy(calculateWinner(squares))
      THEN /\ UNCHANGED <<history, currentMove>>
           /\ last' = [op |-> "click", arg |-> i, accepted |-> FALSE, dropped |-> 0, droppedWin |-> FALSE]
      ELSE LET nextSquares == [squares EXCEPT ![i] = IF xIsNext THEN "X" ELSE "O"]
           IN  /\ handlePlay(nextSquares)
               /\ last' = [op |-> "click", arg |-> i, accepted |-> TRUE,
                           dropped |-> Len(history) - (currentMove + 1),
                           droppedWin |-> WinAhead]

\* handleClick whose early return tests only squares[i].
handleClick_noWinnerCheck(i) ==
  LET squares == currentSquares
  IN  IF Truthy(squares[i])
      THEN /\ UNCHANGED <<history, currentMove>>
           /\ last' = [op |-> "click", arg |-> i, accepted |-> FALSE, dropped |-> 0, droppedWin |-> FALSE]
      ELSE LET nextSquares == [squares EXCEPT ![i] = IF xIsNext THEN "X" ELSE "O"]
           IN  /\ handlePlay(nextSquares)
               /\ last' = [op |-> "click", arg |-> i, accepted |-> TRUE,
                           dropped |-> Len(history) - (currentMove + 1),
                           droppedWin |-> WinAhead]

\* handleClick writing the mark into squares itself (no slice()), so that
\* the snapshot under the cursor changes with the new one.
handleClick_inPlace(i) ==
  LET squares == currentSquares
  IN  IF Truthy(squares[i]) \/ Truthy(calculateWinner(squares))
      THEN /\ UNCHANGED <<history, currentMove>>
           /\ last' = [op |-> "click", arg |-> i, accepted |-> FALSE, dropped |-> 0, droppedWin |-> FALSE]
      ELSE LET nextSquares == [squares EXCEPT ![i] = IF xIsNext THEN "X" ELSE "O"]
           IN  /\ history' = Slice(history, currentMove) \o <<nextSquares, nextSquares>>
               /\ currentMove' = currentMove + 1
               /\ last' = [op |-> "click", arg |-> i, accepted |-> TRUE,
                           dropped |-> Len(history) - (currentMove + 1),
                           droppedWin |-> WinAhead]

\* handleClick whose early return looks for a winner on the last recorded
\* snapshot instead of the board under the cursor.
handleClick_winAnywhere(i) ==
  LET squares == currentSquares
  IN  IF Truthy(squares[i]) \/ Truthy(calculateWinner(history[Len(history)]))
      THEN /\ UNCHANGED <<history, currentMove>>
           /\ last' = [op |-> "click", arg |-> i, accepted |-> FALSE, dropped |-> 0, droppedWin |-> FALSE]
      ELSE LET nextSquares == [squares EXCEPT ![i] = IF xIsNext THEN "X" ELSE "O"]
           IN  /\ handlePlay(nextSquares)
               /\ last' = [op |-> "click", arg |-> i, accepted |-> TRUE,
                           dropped |-> Len(history) - (currentMove + 1),
                           droppedWin |-> WinAhead]

\* Board.handleClick: the early return, else the copy with the mark of the
\* player whose turn it is, handed to onPlay (= handlePlay).
handleClick(i) ==
  LET squares == currentSquares
  IN  IF Truthy(squares[i]) \/ Truthy(calculateWinner(squares))
      THEN /\ UNCHANGED <<history, currentMove>>
           /\ last' = [op |-> "click", arg |-> i, accepted |-> FALSE, dropped |-> 0, droppedWin |-> FALSE]
      ELSE LET nextSquares == [squares EXCEPT ![i] = IF xIsNext THEN "X" ELSE "O"]
           IN  /\ handlePlay(nextSquares)
               /\ last' = [op |-> "click", arg |-> i, accepted |-> TRUE,
                           dropped |-> Len(history) - (currentMove + 1),
                           droppedWin |-> WinAhead]

\* jumpTo that also forgets the snapshots after the target.
jumpTo_truncate(nextMove) ==
  /\ currentMove' = nextMove
  /\ history' = Slice(history, nextMove + 1)
  /\ last' = [op |-> "jump", arg |-> nextMove, accepted |-> TRUE, dropped |-> 0, droppedWin |-> FALSE]

\* Game.jumpTo
jumpTo(nextMove) ==
  /\ currentMove' = nextMove
  /\ UNCHANGED history
  /\ last' = [op |-> "jump", arg |-> nextMove, accepted |-> TRUE, dropped |-> 0, droppedWin |-> FALSE]

-----------------------------------------------------------------------------
(* The game as the user drives it *)

Init ==
  /\ history = <<EmptyBoard>>
  /\ currentMove = 0
  /\ last = NoEvent
  /\ squaresArg = EmptyBoard
  /\ winnerRet = "pending"

\* The squares the user clicks.
Clickable == {i \in Cells : i <= MaxCell}

\* A click on square i.
SquareClick(i) ==
  /\ handleClick(i)
  /\ UNCHANGED <<squaresArg, winnerRet>>

\* A click on the move-list button of index move.
MoveButtonClick(move) ==
  /\ jumpTo(move)
  /\ UNCHANGED <<squaresArg, winnerRet>>

Next ==
  \/ \E i \in Clickable : SquareClick(i)
  \/ \E move \in moves : MoveButtonClick(move)

Spec == Init /\ [][Next]_vars

-----------------------------------------------------------------------------
(* Whole games: the user follows one of a few click sequences on all nine *)
(* squares, jumping back and replaying at will                            *)

\* A game that fills the board without a line.
DrawGame == <<0, 1, 2, 4, 3, 5, 7, 6, 8>>
\* X completes the top row with the fifth move; then a click on square 5.
XWinGame == <<0, 4, 1, 3, 2, 5>>
\* O completes the top row with the sixth move; then a click on square 5.
OWinGame == <<4, 0, 8, 1, 3, 2, 5>>
\* X completes the top row and the left column with the ninth move.
TwoLinesGame == <<1, 4, 2, 5, 3, 7, 6, 8, 0>>

Games == {DrawGame, XWinGame, OWinGame, TwoLinesGame}

\* The board after the first n clicks of the sequence g, X and O in turn.
RECURSIVE GameBoard(_, _)
GameBoard(g, n) ==
  IF n = 0 THEN EmptyBoard
  ELSE [GameBoard(g, n - 1) EXCEPT ![g[n]] = IF n % 2 = 1 THEN "X" ELSE "O"]

\* The snapshots up to the cursor are those of the sequence g, which has a
\* next click.
Follows(g) ==
  /\ Len(g) > currentMove
  /\ \A k \in 0..currentMove : HistoryAt(k) = GameBoard(g, k)

\* A click on square i: the next click of a sequence, or a click on a
\* square that is occupied or lies on a decided board.
GameClick(i) ==
  /\ \/ \E g \in Games : Follows(g) /\ g[currentMove + 1] = i
     \/ Truthy(currentSquares[i])
     \/ Truthy(calculateWinner(currentSquares))
  /\ handleClick(i)
  /\ UNCHANGED <<squaresArg, winnerRet>>

NextGames ==
  \/ \E i \in Cells : GameClick(i)
  \/ \E move \in moves : MoveButtonClick(move)

SpecGames == Init /\ [][NextGames]_vars

-----------------------------------------------------------------------------
(* calculateWinner called on an arbitrary board *)

InitEval ==
  /\ history = <<EmptyBoard>>
  /\ currentMove = 0
  /\ last = NoEvent
  /\ squaresArg \in Boards
  /\ winnerRet = "pending"

Evaluate ==
  /\ winnerRet = "pending"
  /\ winnerRet' = calculateWinner(squaresArg)
  /\ UNCHANGED <<history, currentMove, last, squaresArg>>

NextEval == Evaluate

SpecEval == InitEval /\ [][NextEval]_vars
-----------------------------------------------------------------------------
(* Properties *)

\* The number of marks on a board.
MarkCount(board) == Cardinality({c \in Cells : board[c] # Null})

\* The step just taken was a click on a square / an accepted one / a click
\* on a move-list button.
ClickStep == last'.op = "click"
AcceptedStep == last'.op = "click" /\ last'.accepted
JumpStep == last'.op = "jump"

\* C1: an accepted move made at cursor C leaves a history of length C+2 with
\* the cursor at C+1, the snapshots 0..C as they were, and nothing of what
\* was recorded at index C+1 or above except the one new snapshot.
C1_AcceptedMoveTruncates ==
  [][AcceptedStep =>
       /\ Len(history') = currentMove + 2
       /\ currentMove' = currentMove + 1
       /\ \A k \in 0..currentMove : history'[k + 1] = history[k + 1]
    ]_vars

\* C1 witness: a move was accepted after a jump back, with later snapshots
\* to discard.
C1_Witness ==
  /\ last.op = "click" /\ last.accepted
  /\ last.dropped >= 2
  /\ currentMove >= 2

\* C2: a click on a square that is occupied in the current snapshot changes
\* neither the history nor the cursor.
C2_OccupiedClickIsNoOp ==
  [][(ClickStep /\ Truthy(currentSquares[last'.arg])) =>
       UNCHANGED <<history, currentMove>>
    ]_vars

\* C2 witness: a rejected click on an occupied square of a board without a
\* completed line, at a cursor behind the end of the history.
C2_Witness ==
  /\ last.op = "click" /\ ~last.accepted
  /\ Truthy(currentSquares[last.arg])
  /\ ~Truthy(calculateWinner(currentSquares))
  /\ currentMove < Len(history) - 1

\* C3: when the current snapshot holds a completed line, a click on any
\* square, empty ones included, changes neither the history nor the cursor.
C3_ClickAfterWinIsNoOp ==
  [][(ClickStep /\ \E m \in Marks : calculateWinner(currentSquares) = m) =>
       UNCHANGED <<history, currentMove>>
    ]_vars

\* C3 witness: a rejected click on an empty square of a won board.
C3_Witness ==
  /\ last.op = "click" /\ ~last.accepted
  /\ currentSquares[last.arg] = Null
  /\ calculateWinner(currentSquares) \in Marks

\* C4: jumpTo(k) sets the cursor to k and leaves the history as it was, so
\* the current board is then the snapshot k of the unchanged history.
C4_JumpKeepsHistory ==
  [][JumpStep =>
       /\ last'.arg \in 0 .. (Len(history) - 1)
       /\ currentMove' = last'.arg
       /\ history' = history
       /\ currentSquares' = history[last'.arg + 1]
    ]_vars

\* C4 witness: after a jump backwards the later snapshots are still there.
C4_Witness ==
  /\ last.op = "jump"
  /\ currentMove = last.arg
  /\ currentMove + 2 < Len(history)

\* C5: the cursor is always an index of the history, the board under it is a
\* board; a jump target is an index of the history and an accepted move
\* leaves the cursor on the last index.
C5_CursorInRange ==
  /\ currentMove \in 0 .. (Len(history) - 1)
  /\ currentSquares \in Boards
  /\ last.op = "jump" => last.arg \in moves
  /\ (last.op = "click" /\ last.accepted) => currentMove = Len(history) - 1

\* C5 witness: the cursor on the last index after a jump to it.
C5_Witness ==
  /\ last.op = "jump"
  /\ Len(history) >= 3
  /\ currentMove = Len(history) - 1

\* C6: the snapshot at index k holds exactly k marks.
C6_SnapshotHasIndexMarks ==
  \A k \in 0 .. (Len(history) - 1) : MarkCount(history[k + 1]) = k

\* C6 witness: a rejected click after a move that discarded snapshots.
C6_Witness ==
  /\ last.op = "click" /\ ~last.accepted
  /\ Len(history) >= 4
  /\ currentMove = 1

\* C7: the mark an accepted move places is X when the cursor was even and O
\* when it was odd.
C7_MarkFromCursorParity ==
  [][AcceptedStep =>
       /\ currentSquares[last'.arg] = Null
       /\ history'[currentMove + 2][last'.arg] =
            (IF currentMove % 2 = 0 THEN "X" ELSE "O")
    ]_vars

\* C7 witness: an O placed by a move made after jumping back over an odd
\* number of snapshots.
C7_Witness ==
  /\ last.op = "click" /\ last.accepted
  /\ last.dropped % 2 = 1
  /\ currentSquares[last.arg] = "O"

-----------------------------------------------------------------------------
(* calculateWinner on every board *)

\* The eight triples as sets of cells: rows, columns, diagonals.
Triples == << {0, 1, 2}, {3, 4, 5}, {6, 7, 8},
              {0, 3, 6}, {1, 4, 7}, {2, 5, 8},
              {0, 4, 8}, {2, 4, 6} >>

\* Mark m fills the n-th triple of the board.
FilledBy(board, n, m) == \A c \in Triples[n] : board[c] = m

Filled(board, n) == \E m \in Marks : FilledBy(board, n, m)

\* C8: on a board with a filled triple, calculateWinner returns the mark of
\* the earliest filled triple in the order row0..row2, col0..col2, diag0,
\* diag1.
C8_WinnerIsEarliestTriple ==
  (winnerRet # "pending" /\ \E n \in 1..8 : Filled(squaresArg, n)) =>
     \E n \in 1..8 :
        /\ Filled(squaresArg, n)
        /\ \A k \in 1..(n - 1) : ~Filled(squaresArg, k)
        /\ winnerRet \in Marks
        /\ FilledBy(squaresArg, n, winnerRet)

\* C8 witness: the call returned on a board where a triple of O comes
\* before a triple of X.
C8_Witness ==
  /\ winnerRet = "O"
  /\ FilledBy(squaresArg, 2, "O")
  /\ FilledBy(squaresArg, 3, "X")

\* C9: on a board without a filled triple calculateWinner returns null.
C9_NoTripleNoWinner ==
  (winnerRet # "pending" /\ \A n \in 1..8 : ~Filled(squaresArg, n)) =>
     winnerRet = Null

\* C9 witness: the call returned null on a completely filled board.
C9_Witness ==
  /\ winnerRet = Null
  /\ \A c \in Cells : squaresArg[c] \in Marks

-----------------------------------------------------------------------------
(* The five-move win 0, 4, 1, 3, 2 and the replay from move 2 *)

Board1 == [EmptyBoard EXCEPT ![0] = "X"]
Board2 == [Board1 EXCEPT ![4] = "O"]
Board3 == [Board2 EXCEPT ![1] = "X"]
Board4 == [Board3 EXCEPT ![3] = "O"]
Board5 == [Board4 EXCEPT ![2] = "X"]
FiveMoveWin == <<EmptyBoard, Board1, Board2, Board3, Board4, Board5>>

\* The state after jumpTo(2) on the history of the five-move win.
JumpedBackTo2 ==
  /\ history = FiveMoveWin
  /\ currentMove = 2
  /\ last.op = "jump" /\ last.arg = 2

\* The new history is the snapshots 0..2 followed by the index-2 board with
\* the mark added in cell i.
ReplayedWith(i, mark) ==
  /\ Len(history') = 4
  /\ currentMove' = 3
  /\ SubSeq(history', 1, 3) = SubSeq(FiveMoveWin, 1, 3)
  /\ history'[4][i] = mark
  /\ \A c \in Cells \ {i} : history'[4][c] = Board2[c]

\* C10 as stated: after the five-move win and jumpTo(2), playMove(4) puts the
\* new move on the index-2 board, as the new snapshot 3 of a history of
\* length 4.
C10_ReplayAtCell4 ==
  [][(JumpedBackTo2 /\ ClickStep /\ last'.arg = 4) => ReplayedWith(4, "X")]_vars

\* C10 amended: after the five-move win and jumpTo(2), playMove(4) is
\* rejected (cell 4 holds O in the index-2 board) and the history keeps its
\* 6 snapshots with the cursor at 2; playMove(i) on a cell i that is empty in
\* the index-2 board puts X there as the new snapshot 3 of a history of
\* length 4, everything recorded at index 3 or above being discarded.
C10_ReplayFromMove2 ==
  [][(JumpedBackTo2 /\ ClickStep) =>
       IF last'.arg \in {0, 4}
       THEN /\ UNCHANGED <<history, currentMove>>
            /\ Len(history') = 6
       ELSE ReplayedWith(last'.arg, "X")
    ]_vars

\* C10 witness: playMove(4) has been rejected at move 2 of the five-move
\* win.
C10_Witness ==
  /\ history = FiveMoveWin
  /\ currentMove = 2
  /\ last = [op |-> "click", arg |-> 4, accepted |-> FALSE, dropped |-> 0, droppedWin |-> FALSE]

-----------------------------------------------------------------------------
(* The five-move win played from the start *)

FiveMoves == <<0, 4, 1, 3, 2>>

\* The history holds exactly the first k moves of the five-move win, the
\* cursor on the last of them.
PlayedFirst(k) ==
  /\ history = SubSeq(FiveMoveWin, 1, k + 1)
  /\ currentMove = k

\* C11: from the initial state playMove(0), (4), (1), (3), (2) are each
\* accepted and place X, O, X, O, X; then calculateWinner gives X on the
\* current board, the status is the winner status of X, the history has 6
\* snapshots with the cursor at 5, and playMove(5) changes neither.
C11_FiveMoveWin ==
  /\ [][\A k \in 0..4 :
          (PlayedFirst(k) /\ ClickStep /\ last'.arg = FiveMoves[k + 1]) =>
             /\ last'.accepted
             /\ history' = SubSeq(FiveMoveWin, 1, k + 2)
             /\ currentMove' = k + 1
       ]_vars
  /\ [](PlayedFirst(5) =>
          /\ calculateWinner(currentSquares) = "X"
          /\ status = "Winner: X"
          /\ Len(history) = 6
          /\ currentMove = 5)
  /\ [][(PlayedFirst(5) /\ ClickStep /\ last'.arg = 5) =>
          UNCHANGED <<history, currentMove>>
       ]_vars

\* C11 witness: playMove(5) has been rejected on the won board of the
\* five-move win.
C11_Witness ==
  /\ PlayedFirst(5)
  /\ last.op = "click" /\ last.arg = 5 /\ ~last.accepted

-----------------------------------------------------------------------------
(* Invariants of the history *)

\* C12: each snapshot differs from its predecessor in exactly one cell,
\* empty before and marked after; so a marked cell keeps its mark in every
\* later snapshot, and the snapshot a move was computed from stays as it was.
C12_OneCellPerMove ==
  /\ \A k \in 1 .. (Len(history) - 1) :
       \E c \in Cells :
          /\ history[k][c] = Null
          /\ history[k + 1][c] \in Marks
          /\ \A d \in Cells \ {c} : history[k + 1][d] = history[k][d]
  /\ \A j, k \in 1 .. Len(history) :
       \A c \in Cells :
          (j < k /\ history[j][c] # Null) => history[k][c] = history[j][c]

\* C12 witness: a history of at least five snapshots whose last one was
\* played after a jump back.
C12_Witness ==
  /\ last.op = "click" /\ last.accepted /\ last.dropped >= 1
  /\ Len(history) >= 5

\* C13: the status names m as the winner exactly when a triple of the
\* current board is filled by m; otherwise it names the next player, X at an
\* even cursor and O at an odd one, also on a full board without a line
\* (cursor 9), where it still announces O.
C13_StatusLine ==
  LET won(m) == \E n \in 1..8 : FilledBy(currentSquares, n, m)
  IN  /\ \A m \in Marks : (status = "Winner: " \o m) <=> won(m)
      /\ (~won("X") /\ ~won("O")) =>
            status = (IF currentMove % 2 = 0 THEN "Next player: X"
                                             ELSE "Next player: O")
      /\ (currentMove = 9 /\ ~won("X") /\ ~won("O")) =>
            /\ status = "Next player: O"
            /\ \A c \in Cells : currentSquares[c] \in Marks

\* C13 witness: a click has been rejected on a full board without a line,
\* the status naming O as the next player.
C13_Witness ==
  /\ currentMove = 9
  /\ \A n \in 1..8 : ~Filled(currentSquares, n)
  /\ status = "Next player: O"
  /\ last.op = "click" /\ ~last.accepted

\* C14: the history is never empty and its snapshot 0 is the empty board;
\* before any event it is that one snapshot, with the cursor at 0.
C14_StartsWithEmptyBoard ==
  /\ Len(history) >= 1
  /\ HistoryAt(0) = EmptyBoard
  /\ last.op = "init" => (history = <<EmptyBoard>> /\ currentMove = 0)

\* C14 witness: a first move replayed after a jump back to the game start.
C14_Witness ==
  /\ last.op = "click" /\ last.accepted /\ last.dropped >= 3
  /\ currentMove = 1

\* C15: a click on square i is accepted, and changes the state, exactly when
\* i is empty in the snapshot under the cursor and that snapshot has no
\* winner; a win recorded after the cursor does not block the move, and the
\* accepted move leaves nothing of what was recorded after the cursor.
C15_GuardOnCurrentSnapshot ==
  [][ClickStep =>
       LET free == /\ currentSquares[last'.arg] = Null
                   /\ calculateWinner(currentSquares) = Null
       IN  /\ last'.accepted <=> free
           /\ (<<history, currentMove>>' # <<history, currentMove>>) <=> free
           /\ (free /\ WinAhead) =>
                /\ Len(history') = currentMove + 2
                /\ Len(history') <= Len(history)
                /\ \A k \in 1 .. (Len(history') - 1) :
                      calculateWinner(history'[k]) = Null
    ]_vars

\* C15 witness: a move accepted after a jump back from a recorded win.
C15_Witness ==
  /\ last.op = "click" /\ last.accepted
  /\ last.droppedWin

\* C16: only the last snapshot of the history can hold a completed line, so
\* the cursor is on a won board only when it is on the last index.
C16_WinOnlyAtEnd ==
  /\ \A k \in 0 .. (Len(history) - 2) : calculateWinner(HistoryAt(k)) = Null
  /\ calculateWinner(currentSquares) \in Marks =>
        currentMove = Len(history) - 1

\* C16 witness: the history ends in a won snapshot and the cursor has been
\* moved back from it.
C16_Witness ==
  /\ last.op = "jump"
  /\ currentMove < Len(history) - 1
  /\ calculateWinner(history[Len(history)]) \in Marks

\* The number of cells of a board that hold mark m.
CountOf(board, m) == Cardinality({c \in Cells : board[c] = m})

\* C17: the snapshot at index k holds ceil(k/2) X and floor(k/2) O.
C17_MarksAlternate ==
  \A k \in 0 .. (Len(history) - 1) :
     /\ CountOf(HistoryAt(k), "X") = (k + 1) \div 2
     /\ CountOf(HistoryAt(k), "O") = k \div 2

\* C17 witness: a history of four or more snapshots whose last move was
\* played after jumping back over an odd number of snapshots.
C17_Witness ==
  /\ last.op = "click" /\ last.accepted
  /\ last.dropped % 2 = 1
  /\ Len(history) >= 4

\* C18: no snapshot holds a filled triple of X and a filled triple of O, so
\* every filled triple of a snapshot is filled by the mark calculateWinner
\* returns, whatever the order of the table.
C18_OneWinnerPerBoard ==
  \A k \in 0 .. (Len(history) - 1) :
     /\ ~ (/\ \E n \in 1..8 : FilledBy(HistoryAt(k), n, "X")
           /\ \E n \in 1..8 : FilledBy(HistoryAt(k), n, "O"))
     /\ \A n \in 1..8 :
           Filled(HistoryAt(k), n) =>
              FilledBy(HistoryAt(k), n, calculateWinner(HistoryAt(k)))

\* C18 witness: the board under the cursor holds two filled triples, both
\* of the mark calculateWinner returns.
C18_Witness ==
  \E n, k \in 1..8 :
     /\ n # k
     /\ calculateWinner(currentSquares) \in Marks
     /\ FilledBy(currentSquares, n, calculateWinner(currentSquares))
     /\ FilledBy(currentSquares, k, calculateWinner(currentSquares))

\* C19: the history has at most 10 snapshots and the cursor is at most 9;
\* on a full board or a board with a completed line every click is rejected
\* (only a jump moves the cursor again).
C19_BoundedHistory ==
  /\ [](/\ Len(history) <= 10
        /\ currentMove <= 9
        /\ currentMove = 9 => \A c \in Cells : currentSquares[c] \in Marks)
  /\ [][(ClickStep /\ (currentMove = 9 \/ calculateWinner(currentSquares) \in Marks)) =>
          /\ ~last'.accepted
          /\ UNCHANGED <<history, currentMove>>
       ]_vars
  /\ [][AcceptedStep => currentMove' = currentMove + 1]_vars

\* C19 witness: the ninth move in a row has been accepted, the history
\* holding 10 snapshots.
C19_Witness ==
  /\ Len(history) = 10
  /\ currentMove = 9
  /\ last.op = "click" /\ last.accepted /\ last.dropped = 0
====
